---- MODULE Spec2Model ----
(***************************************************************************)
(* State-machine model of react-mutex (src/src/mutex.ts, src/src/error.ts). *)
(*                                                                         *)
(* A component instance owns one reference (useRef) holding the hidden     *)
(* MutexInternal record { value, [borrow] }.  useMutex creates that record *)
(* on the first render and returns a Mutex { acquire, isAvailable } bound  *)
(* to it.  acquire mints a frozen MutexResource carrying a fresh Symbol    *)
(* token; the resource is usable while its token equals the [borrow] slot. *)
(* Every call is synchronous, so each call is one atomic action.           *)
(***************************************************************************)
EXTENDS Integers, Sequences, FiniteSets

(* ---------------------------- bounds ----------------------------------- *)
NumGuards == 2      \* component instances, each calling useMutex
NumCallers == 2     \* agents making calls
MaxHandles == 3     \* resource views minted over a run (all guards together)
MaxValue == 1       \* resource values are 0..MaxValue
MaxRenders == 2     \* useMutex calls per component instance

Guards == 1..NumGuards
Callers == 1..NumCallers
Values == 0..MaxValue

(* ----------------------- encodings of JS values ------------------------ *)
Null == 0           \* the null of the [borrow] slot; Symbols are 1, 2, ...
NoValue == -1       \* "no value" in the call record (void return, no argument)
NoHandle == 0       \* "no resource view" in the call record
NoCaller == 0       \* the host framework, which calls useMutex
NoRender == 0       \* "no Mutex object" in the call record

Ok == "ok"
MutexLockedError == "MutexLockedError"
MutexAccessRevokedError == "MutexAccessRevokedError"

(* User-supplied initializer functions (params: P) => T, by name.          *)
Initializers == {"same", "flip"}
CallInitializer(f, p) == IF f = "same" THEN p ELSE MaxValue - p

VARIABLES
    mounted,    \* mounted[g]: mutexRef.current !== null for component g
    value,      \* value[g]: mutexRef.current.value
    borrow,     \* borrow[g]: mutexRef.current[borrow], Null or a Symbol
    symbols,    \* number of Symbols created so far
    handles,    \* every MutexResource minted, in order: [mutex, token]
    renders,    \* renders[g]: number of useMutex calls of component g
    initCalls,  \* initCalls[g]: number of invocations of the initializer
    releases,   \* history: releases[h] counts executions of line 85 via h
    lastSet,    \* history: lastSet[g].value is the initial value, then the
                \* value of the last set() that succeeded; .handle is the
                \* view it went through (NoHandle for the initial value)
    holding,    \* history: holding[c] is the set of views acquire() has
                \* returned to caller c and no release() has released yet
    lastOp      \* the last call made and what it returned or threw

vars == <<mounted, value, borrow, symbols, handles, renders, initCalls,
          releases, lastSet, holding, lastOp>>

Handles == 1..Len(handles)

\* The record of a call.  render is the render whose Mutex object the call
\* went through (NoRender for calls on a view and for useMutex); init is
\* the first argument of useMutex; prevAcquire and prevRender remember the
\* call before it when that was an acquire(): its result and its render.
Call(op, c, g, h, a, res, r, f) ==
    [op |-> op, caller |-> c, mutex |-> g, handle |-> h, arg |-> a,
     result |-> res, ret |-> r, flag |-> f, init |-> NoValue,
     render |-> NoRender,
     prevAcquire |-> IF lastOp.op = "acquire" THEN lastOp.result ELSE "none",
     prevRender |-> IF lastOp.op = "acquire" THEN lastOp.render ELSE NoRender]

(* ------------------------- pure helpers -------------------------------- *)
\* Symbol.for-like bug: the same token every time.
SymbolFor(n) == 1

\* Symbol('mutex:borrow'): a value different from every Symbol made before;
\* n is the number of Symbols made so far.
Symbol(n) == n + 1

\* const isReleased = () => token !== mutexRef.current[borrow]
isReleased(h) == handles[h].token # borrow[handles[h].mutex]

\* inverted test
isAvailableInverted(g) == borrow[g] # Null

\* isAvailable: () => mutexRef.current![borrow] === null
isAvailable(g) == borrow[g] = Null

\* a view closed over one module-wide ref instead of the ref passed in
createMutexResourceShared(g) == [mutex |-> 1, token |-> Symbol(symbols)]

\* The frozen object createMutexResource returns for the ref of component g.
createMutexResource(g) == [mutex |-> g, token |-> Symbol(symbols)]

Live(g) == {h \in Handles : handles[h].mutex = g /\ ~isReleased(h)}

(* ------------------------------ Init ----------------------------------- *)
\* Before the first render of any component: no ref is initialised, no
\* resource view exists.  value and borrow of an unmounted component are
\* placeholders that no call can read (every call needs a Mutex object,
\* which only a useMutex call returns).
Init ==
    /\ mounted = [g \in Guards |-> FALSE]
    /\ value = [g \in Guards |-> 0]
    /\ borrow = [g \in Guards |-> Null]
    /\ symbols = 0
    /\ handles = << >>
    /\ renders = [g \in Guards |-> 0]
    /\ initCalls = [g \in Guards |-> 0]
    /\ releases = << >>
    /\ lastSet = [g \in Guards |-> [handle |-> NoHandle, value |-> 0]]
    /\ holding = [c \in Callers |-> {}]
    /\ lastOp = [op |-> "none", caller |-> NoCaller, mutex |-> 0,
                 handle |-> NoHandle, arg |-> NoValue, result |-> Ok,
                 ret |-> NoValue, flag |-> FALSE, init |-> NoValue,
                 render |-> NoRender,
                 prevAcquire |-> "none", prevRender |-> NoRender]

(* ----------------------------- useMutex -------------------------------- *)
\* useMutex with the "mutexRef.current === null" test left out: every
\* render builds the record again
useMutexAlways(g, init, params) ==
    /\ renders[g] < MaxRenders
    /\ renders' = [renders EXCEPT ![g] = @ + 1]
    /\ LET v == IF params # NoValue THEN CallInitializer(init, params)
                                    ELSE init
       IN /\ mounted' = [mounted EXCEPT ![g] = TRUE]
          /\ borrow' = [borrow EXCEPT ![g] = Null]
          /\ value' = [value EXCEPT ![g] = v]
          /\ lastSet' = [lastSet EXCEPT ![g] = [handle |-> NoHandle, value |-> v]]
          /\ initCalls' = [initCalls EXCEPT ![g] =
                              IF params # NoValue THEN @ + 1 ELSE @]
    /\ lastOp' = [Call("useMutex", NoCaller, g, NoHandle, params, Ok, NoValue, FALSE)
                     EXCEPT !.init = init]
    /\ UNCHANGED <<symbols, handles, releases>>
    /\ UNCHANGED holding

\* One render of component g calling useMutex(init) (params = NoValue, i.e.
\* undefined) or useMutex(init, [params]).
useMutex(g, init, params) ==
    /\ renders[g] < MaxRenders
    /\ renders' = [renders EXCEPT ![g] = @ + 1]
    /\ IF ~mounted[g]
       THEN LET v == IF params # NoValue THEN CallInitializer(init, params)
                                         ELSE init
            IN /\ mounted' = [mounted EXCEPT ![g] = TRUE]
               /\ borrow' = [borrow EXCEPT ![g] = Null]
               /\ value' = [value EXCEPT ![g] = v]
               /\ lastSet' = [lastSet EXCEPT ![g] = [handle |-> NoHandle, value |-> v]]
               /\ initCalls' = [initCalls EXCEPT ![g] =
                                   IF params # NoValue THEN @ + 1 ELSE @]
       ELSE UNCHANGED <<mounted, borrow, value, lastSet, initCalls>>
    /\ lastOp' = [Call("useMutex", NoCaller, g, NoHandle, params, Ok, NoValue, FALSE)
                     EXCEPT !.init = init]
    /\ UNCHANGED <<symbols, handles, releases>>

(* ------------------------------ Mutex ---------------------------------- *)
    /\ UNCHANGED holding
\* Caller c calls isAvailable() of the Mutex object that render r of
\* component g returned; the callback reads the component's one ref.
CallIsAvailable(c, g, r) ==
    /\ r \in 1..renders[g]
    /\ lastOp' = [Call("isAvailable", c, g, NoHandle, NoValue, Ok, NoValue,
                       isAvailable(g)) EXCEPT !.render = r]
    /\ UNCHANGED <<mounted, value, borrow, symbols, handles, renders,
                   initCalls, releases, lastSet>>
    /\ UNCHANGED holding

\* acquire with the lock test left out
acquireUnchecked(c, g, r) ==
    /\ r \in 1..renders[g]
    /\ Len(handles) < MaxHandles
    /\ LET resourceView == createMutexResource(g)
       IN /\ symbols' = symbols + 1
          /\ handles' = Append(handles, resourceView)
          /\ borrow' = [borrow EXCEPT ![g] = resourceView.token]
          /\ releases' = Append(releases, 0)
          /\ lastOp' = [Call("acquire", c, g, Len(handles) + 1, NoValue, Ok,
                             NoValue, FALSE) EXCEPT !.render = r]
    /\ UNCHANGED <<mounted, value, renders, initCalls, lastSet>>
    /\ holding' = IF lastOp'.result = Ok
                  THEN [holding EXCEPT ![c] = @ \cup {lastOp'.handle}]
                  ELSE holding

\* Caller c calls acquire() of the Mutex object that render r of component
\* g returned; the callback works on the component's one ref.
acquire(c, g, r) ==
    /\ r \in 1..renders[g]
    /\ IF borrow[g] # Null
       THEN /\ lastOp' = [Call("acquire", c, g, NoHandle, NoValue,
                               MutexLockedError, NoValue, FALSE)
                             EXCEPT !.render = r]
            /\ UNCHANGED <<symbols, handles, borrow, releases>>
       ELSE /\ Len(handles) < MaxHandles
            /\ LET resourceView == createMutexResource(g)
               IN /\ symbols' = symbols + 1
                  /\ handles' = Append(handles, resourceView)
                  /\ borrow' = [borrow EXCEPT ![g] = resourceView.token]
                  /\ releases' = Append(releases, 0)
                  /\ lastOp' = [Call("acquire", c, g, Len(handles) + 1,
                                     NoValue, Ok, NoValue, FALSE)
                                   EXCEPT !.render = r]
    /\ UNCHANGED <<mounted, value, renders, initCalls, lastSet>>

(* --------------------------- MutexResource ----------------------------- *)
    /\ holding' = IF lastOp'.result = Ok
                  THEN [holding EXCEPT ![c] = @ \cup {lastOp'.handle}]
                  ELSE holding
\* Caller c calls isReleased() of resource view h.
CallIsReleased(c, h) ==
    /\ lastOp' = Call("isReleased", c, handles[h].mutex, h, NoValue, Ok, NoValue, isReleased(h))
    /\ UNCHANGED <<mounted, value, borrow, symbols, handles, renders,
                   initCalls, releases, lastSet>>
    /\ UNCHANGED holding

\* release with the token test left out (a plain "locked" flag)
releaseUnchecked(c, h) ==
    /\ borrow' = [borrow EXCEPT ![handles[h].mutex] = Null]
    /\ releases' = [releases EXCEPT ![h] = @ + 1]
    /\ lastOp' = Call("release", c, handles[h].mutex, h, NoValue, Ok, NoValue, FALSE)
    /\ UNCHANGED <<mounted, value, symbols, handles, renders, initCalls,
                   lastSet>>
    /\ holding' = IF lastOp'.result = Ok
                  THEN [k \in Callers |-> holding[k] \ {h}]
                  ELSE holding

\* release that passes the token test but does not clear the slot
releaseNoClear(c, h) ==
    /\ IF isReleased(h)
       THEN /\ lastOp' = Call("release", c, handles[h].mutex, h, NoValue,
                              MutexAccessRevokedError, NoValue, FALSE)
            /\ UNCHANGED releases
       ELSE /\ releases' = [releases EXCEPT ![h] = @ + 1]
            /\ lastOp' = Call("release", c, handles[h].mutex, h, NoValue,
                              Ok, NoValue, FALSE)
    /\ UNCHANGED <<mounted, value, borrow, symbols, handles, renders, initCalls,
                   lastSet>>
    /\ holding' = IF lastOp'.result = Ok
                  THEN [k \in Callers |-> holding[k] \ {h}]
                  ELSE holding

\* release that hands the guard straight to a waiting acquirer: it mints
\* the next view and registers its token instead of clearing the slot
releaseHandOver(c, h) ==
    /\ IF isReleased(h)
       THEN /\ lastOp' = Call("release", c, handles[h].mutex, h, NoValue,
                              MutexAccessRevokedError, NoValue, FALSE)
            /\ UNCHANGED <<borrow, releases, symbols, handles>>
       ELSE /\ lastOp' = Call("release", c, handles[h].mutex, h, NoValue,
                              Ok, NoValue, FALSE)
            /\ IF Len(handles) < MaxHandles
               THEN LET resourceView == createMutexResource(handles[h].mutex)
                    IN /\ symbols' = symbols + 1
                       /\ handles' = Append(handles, resourceView)
                       /\ borrow' = [borrow EXCEPT ![handles[h].mutex] =
                                                      resourceView.token]
                       /\ releases' = Append([releases EXCEPT ![h] = @ + 1], 0)
               ELSE /\ borrow' = [borrow EXCEPT ![handles[h].mutex] = Null]
                    /\ releases' = [releases EXCEPT ![h] = @ + 1]
                    /\ UNCHANGED <<symbols, handles>>
    /\ UNCHANGED <<mounted, value, renders, initCalls, lastSet>>
    /\ holding' = IF lastOp'.result = Ok
                  THEN [k \in Callers |-> holding[k] \ {h}]
                  ELSE holding

\* release that also drops the stored value
releaseReset(c, h) ==
    /\ IF isReleased(h)
       THEN /\ lastOp' = Call("release", c, handles[h].mutex, h, NoValue,
                              MutexAccessRevokedError, NoValue, FALSE)
            /\ UNCHANGED <<borrow, releases, value>>
       ELSE /\ borrow' = [borrow EXCEPT ![handles[h].mutex] = Null]
            /\ value' = [value EXCEPT ![handles[h].mutex] = 0]
            /\ releases' = [releases EXCEPT ![h] = @ + 1]
            /\ lastOp' = Call("release", c, handles[h].mutex, h, NoValue,
                              Ok, NoValue, FALSE)
    /\ UNCHANGED <<mounted, symbols, handles, renders, initCalls,
                   lastSet>>
    /\ holding' = IF lastOp'.result = Ok
                  THEN [k \in Callers |-> holding[k] \ {h}]
                  ELSE holding

\* Caller c calls release() of resource view h.
release(c, h) ==
    /\ IF isReleased(h)
       THEN /\ lastOp' = Call("release", c, handles[h].mutex, h, NoValue,
                              MutexAccessRevokedError, NoValue, FALSE)
            /\ UNCHANGED <<borrow, releases>>
       ELSE /\ borrow' = [borrow EXCEPT ![handles[h].mutex] = Null]
            /\ releases' = [releases EXCEPT ![h] = @ + 1]
            /\ lastOp' = Call("release", c, handles[h].mutex, h, NoValue,
                              Ok, NoValue, FALSE)
    /\ UNCHANGED <<mounted, value, symbols, handles, renders, initCalls,
                   lastSet>>
    /\ holding' = IF lastOp'.result = Ok
                  THEN [k \in Callers |-> holding[k] \ {h}]
                  ELSE holding

\* Caller c calls get() of resource view h.
get(c, h) ==
    /\ IF isReleased(h)
       THEN lastOp' = Call("get", c, handles[h].mutex, h, NoValue,
                           MutexAccessRevokedError, NoValue, FALSE)
       ELSE lastOp' = Call("get", c, handles[h].mutex, h, NoValue, Ok,
                           value[handles[h].mutex], FALSE)
    /\ UNCHANGED <<mounted, value, borrow, symbols, handles, renders,
                   initCalls, releases, lastSet>>
    /\ UNCHANGED holding

\* set that passes the token test but never stores the value
setNoWrite(c, h, v) ==
    /\ IF isReleased(h)
       THEN /\ lastOp' = Call("set", c, handles[h].mutex, h, v,
                              MutexAccessRevokedError, NoValue, FALSE)
            /\ UNCHANGED lastSet
       ELSE /\ lastSet' = [lastSet EXCEPT ![handles[h].mutex] = [handle |-> h, value |-> v]]
            /\ lastOp' = Call("set", c, handles[h].mutex, h, v, Ok, NoValue, FALSE)
    /\ UNCHANGED <<mounted, value, borrow, symbols, handles, renders, initCalls,
                   releases>>
    /\ UNCHANGED holding

\* set with the token test left out
setUnchecked(c, h, v) ==
    /\ value' = [value EXCEPT ![handles[h].mutex] = v]
    /\ lastSet' = [lastSet EXCEPT ![handles[h].mutex] = [handle |-> h, value |-> v]]
    /\ lastOp' = Call("set", c, handles[h].mutex, h, v, Ok, NoValue, FALSE)
    /\ UNCHANGED <<mounted, borrow, symbols, handles, renders, initCalls,
                   releases>>
    /\ UNCHANGED holding

\* Caller c calls set(v) of resource view h.
set(c, h, v) ==
    /\ IF isReleased(h)
       THEN /\ lastOp' = Call("set", c, handles[h].mutex, h, v,
                              MutexAccessRevokedError, NoValue, FALSE)
            /\ UNCHANGED <<value, lastSet>>
       ELSE /\ value' = [value EXCEPT ![handles[h].mutex] = v]
            /\ lastSet' = [lastSet EXCEPT ![handles[h].mutex] = [handle |-> h, value |-> v]]
            /\ lastOp' = Call("set", c, handles[h].mutex, h, v, Ok, NoValue, FALSE)
    /\ UNCHANGED <<mounted, borrow, symbols, handles, renders, initCalls,
                   releases>>
    /\ UNCHANGED holding

(* ------------------------------ Next ----------------------------------- *)
\* One component instance (the first) renders and is used; resource views
\* are created only by acquire, so every view belongs to that component.
\* Callers use the Mutex object of the first render: useCallback keeps the
\* two callbacks of the first render for every later render.
Single == {1}

Next ==
    \/ \E g \in Single, v \in Values : useMutex(g, v, NoValue)
    \/ \E g \in Single, f \in Initializers, p \in Values : useMutex(g, f, p)
    \/ \E c \in Callers, g \in Single : CallIsAvailable(c, g, 1)
    \/ \E c \in Callers, g \in Single : acquire(c, g, 1)
    \/ \E c \in Callers, h \in Handles : CallIsReleased(c, h)
    \/ \E c \in Callers, h \in Handles : release(c, h)
    \/ \E c \in Callers, h \in Handles : get(c, h)
    \/ \E c \in Callers, h \in Handles, v \in Values : set(c, h, v)

Spec == Init /\ [][Next]_vars

\* The same component, with callers free to use the Mutex object of any
\* render made so far.
NextRenders ==
    \/ \E g \in Single, v \in Values : useMutex(g, v, NoValue)
    \/ \E g \in Single, f \in Initializers, p \in Values : useMutex(g, f, p)
    \/ \E c \in Callers, g \in Single :
          \E r \in 1..renders[g] : CallIsAvailable(c, g, r)
    \/ \E c \in Callers, g \in Single :
          \E r \in 1..renders[g] : acquire(c, g, r)
    \/ \E c \in Callers, h \in Handles : CallIsReleased(c, h)
    \/ \E c \in Callers, h \in Handles : release(c, h)
    \/ \E c \in Callers, h \in Handles : get(c, h)
    \/ \E c \in Callers, h \in Handles, v \in Values : set(c, h, v)

SpecRenders == Init /\ [][NextRenders]_vars

\* Two component instances, each with its own useMutex storage, each
\* rendered once with a plain initial value and used by one caller.
One == {1}
Pair == {1, 2}

NextGuards ==
    \/ \E g \in Pair, v \in Values : renders[g] = 0 /\ useMutex(g, v, NoValue)
    \/ \E c \in One, g \in Pair : CallIsAvailable(c, g, 1)
    \/ \E c \in One, g \in Pair : acquire(c, g, 1)
    \/ \E c \in One, h \in Handles : CallIsReleased(c, h)
    \/ \E c \in One, h \in Handles : release(c, h)
    \/ \E c \in One, h \in Handles : get(c, h)
    \/ \E c \in One, h \in Handles, v \in Values : set(c, h, v)

SpecGuards == Init /\ [][NextGuards]_vars

(* ============================ properties =============================== *)
HandleOps == {"release", "get", "set"}

\* C1: mutual exclusion -- in every reachable state at most one resource
\* view minted for a guard is live (its token equals the guard's slot).
MutualExclusion == \A g \in Guards : Cardinality(Live(g)) <= 1

\* a later view is live while an earlier one is revoked
MutualExclusionWitness ==
    \E h1, h2 \in Handles :
        /\ h1 < h2 /\ handles[h1].mutex = handles[h2].mutex
        /\ isReleased(h1) /\ ~isReleased(h2)

\* C2: availability is the negation of liveness -- a Free guard has no live
\* view, a Held guard has exactly one, and isAvailable() answers true
\* exactly when no view of the guard is live.
AvailabilityNegatesLiveness ==
    /\ \A g \in Guards : mounted[g] =>
          IF borrow[g] = Null THEN Live(g) = {}
                              ELSE Cardinality(Live(g)) = 1
    /\ lastOp.op = "isAvailable" =>
          /\ lastOp.flag = TRUE <=> Live(lastOp.mutex) = {}
          /\ lastOp.flag = FALSE <=> Cardinality(Live(lastOp.mutex)) = 1

\* isAvailable() has just answered false on a guard with one live view
AvailabilityWitness ==
    /\ lastOp.op = "isAvailable" /\ lastOp.flag = FALSE
    /\ Cardinality(Live(lastOp.mutex)) = 1

\* C3: acquire() on a Free guard succeeds, its view is live and the guard
\* is no longer available; acquire() on a Held guard throws
\* MutexLockedError, mints nothing and leaves value and holder unchanged.
AcquireContract ==
    [][\A g \in Guards : (lastOp'.op = "acquire" /\ lastOp'.mutex = g) =>
          IF borrow[g] = Null
          THEN /\ lastOp'.result = Ok
               /\ Len(handles') = Len(handles) + 1
               /\ lastOp'.handle = Len(handles')
               /\ handles'[lastOp'.handle].mutex = g
               /\ handles'[lastOp'.handle].token = borrow'[g]
               /\ borrow'[g] # Null
          ELSE /\ lastOp'.result = MutexLockedError
               /\ lastOp'.handle = NoHandle
               /\ handles' = handles
               /\ value' = value
               /\ borrow' = borrow]_vars

\* an acquire has just been refused while a view is live
AcquireWitness ==
    /\ lastOp.op = "acquire" /\ lastOp.result = MutexLockedError
    /\ Live(lastOp.mutex) # {}

\* C4: release() on a live view succeeds and frees the guard; a revoked
\* view stays revoked through every later step, and release() on it throws
\* MutexAccessRevokedError.
RevocationIrreversible ==
    [][\A h \in Handles :
          /\ isReleased(h) => handles'[h].token # borrow'[handles'[h].mutex]
          /\ (lastOp'.op = "release" /\ lastOp'.handle = h) =>
                IF isReleased(h)
                THEN lastOp'.result = MutexAccessRevokedError
                ELSE /\ lastOp'.result = Ok
                     /\ borrow'[handles[h].mutex] = Null
                     /\ handles'[h].token # borrow'[handles'[h].mutex]]_vars

\* a second release() has just been refused on a view released before a
\* later view was acquired
RevocationWitness ==
    /\ lastOp.op = "release" /\ lastOp.result = MutexAccessRevokedError
    /\ releases[lastOp.handle] = 1
    /\ \E h \in Handles : h > lastOp.handle /\ ~isReleased(h)

\* C5: get() and set(v) on a revoked view throw MutexAccessRevokedError and
\* leave value and holder unchanged, whether or not another view is live.
RevokedGetSetFail ==
    [][\A h \in Handles :
          (lastOp'.op \in {"get", "set"} /\ lastOp'.handle = h /\ isReleased(h)) =>
              /\ lastOp'.result = MutexAccessRevokedError
              /\ lastOp'.ret = NoValue
              /\ value' = value
              /\ borrow' = borrow]_vars

\* set(v), v different from the stored value, has just been refused on a
\* revoked view while another view is live
RevokedGetSetWitness ==
    /\ lastOp.op = "set" /\ lastOp.result = MutexAccessRevokedError
    /\ lastOp.arg # value[lastOp.mutex]
    /\ Live(lastOp.mutex) # {}

\* C6: release() on a revoked view throws MutexAccessRevokedError and does
\* not clear the holder (the live view stays live); the release effect is
\* executed at most once per view.
StaleReleaseHarmless ==
    [][/\ \A h \in Handles :
            (lastOp'.op = "release" /\ lastOp'.handle = h /\ isReleased(h)) =>
                /\ lastOp'.result = MutexAccessRevokedError
                /\ borrow' = borrow
                /\ handles' = handles
       /\ \A h \in 1..Len(releases') : releases'[h] <= 1]_vars

\* a released view's release() has just been refused while another view
\* holds the guard
StaleReleaseWitness ==
    /\ lastOp.op = "release" /\ lastOp.result = MutexAccessRevokedError
    /\ releases[lastOp.handle] = 1
    /\ \E h \in Live(lastOp.mutex) : h # lastOp.handle /\ releases[h] = 0

\* C7: round trip -- get() on a view returns the value of the last set()
\* that succeeded through that view, and get() changes neither value nor
\* holder.
RoundTrip ==
    [][\A h \in Handles : (lastOp'.op = "get" /\ lastOp'.handle = h) =>
          /\ value' = value
          /\ borrow' = borrow
          /\ (lastOp'.result = Ok /\ lastSet[handles[h].mutex].handle = h) =>
                lastOp'.ret = lastSet[handles[h].mutex].value]_vars

\* get() has just returned the value set through the same view
RoundTripWitness ==
    /\ lastOp.op = "get" /\ lastOp.result = Ok
    /\ lastSet[lastOp.mutex].handle = lastOp.handle
    /\ lastOp.ret = lastSet[lastOp.mutex].value

\* C8: re-entrancy -- once every view minted so far has been released,
\* acquire() succeeds again; identities of different views differ; get, set
\* and release succeed on a later live view and fail on the earlier,
\* revoked one.
ReEntrancy ==
    [][/\ \A g \in Guards :
            (/\ lastOp'.op = "acquire" /\ lastOp'.mutex = g
             /\ \E h \in Handles : handles[h].mutex = g
             /\ \A h \in Handles : handles[h].mutex = g => releases[h] = 1) =>
                /\ lastOp'.result = Ok
                /\ \A h \in Handles :
                      handles'[lastOp'.handle].token # handles[h].token
       /\ \A h1, h2 \in Handles :
            (/\ h1 < h2 /\ handles[h1].mutex = handles[h2].mutex
             /\ ~isReleased(h2) /\ lastOp'.op \in HandleOps) =>
                /\ isReleased(h1)
                /\ lastOp'.handle = h2 => lastOp'.result = Ok
                /\ lastOp'.handle = h1 =>
                      lastOp'.result = MutexAccessRevokedError]_vars

\* set() has just succeeded on a second view while the first is revoked
ReEntrancyWitness ==
    /\ lastOp.op = "set" /\ lastOp.result = Ok /\ lastOp.handle > 1
    /\ \E h1 \in Handles :
          /\ h1 < lastOp.handle /\ releases[h1] = 1 /\ isReleased(h1)
          /\ handles[h1].token # handles[lastOp.handle].token

\* C9: the value survives release and re-acquisition -- the stored value is
\* always the initial value or the last successfully set one, and get()
\* on a live view returns it.
ValueSurvives ==
    /\ \A g \in Guards : mounted[g] => value[g] = lastSet[g].value
    /\ (lastOp.op = "get" /\ lastOp.result = Ok) =>
          lastOp.ret = lastSet[lastOp.mutex].value

\* get() on a view that never set anything has just returned the value set
\* through an earlier, released view
ValueSurvivesWitness ==
    /\ lastOp.op = "get" /\ lastOp.result = Ok
    /\ \E h1 \in Handles :
          /\ h1 < lastOp.handle /\ releases[h1] = 1
          /\ lastSet[lastOp.mutex] = [handle |-> h1, value |-> lastOp.ret]

\* C10: isAvailable() and isReleased() never throw and change nothing;
\* after isAvailable() answered true the next call, if an acquire() on that
\* guard, succeeds; after isReleased() answered false the next call, if a
\* get/set/release on that view, succeeds.
ProbesTotalAccurate ==
    [][/\ lastOp'.op \in {"isAvailable", "isReleased"} =>
            /\ lastOp'.result = Ok
            /\ value' = value /\ borrow' = borrow /\ handles' = handles
       /\ (/\ lastOp.op = "isAvailable" /\ lastOp.flag = TRUE
           /\ lastOp'.op = "acquire" /\ lastOp'.mutex = lastOp.mutex) =>
              lastOp'.result = Ok
       /\ (/\ lastOp.op = "isReleased" /\ lastOp.flag = FALSE
           /\ lastOp'.op \in HandleOps /\ lastOp'.handle = lastOp.handle) =>
              lastOp'.result = Ok]_vars

\* isAvailable() has just answered true on a guard released earlier
ProbesWitness ==
    /\ lastOp.op = "isAvailable" /\ lastOp.flag = TRUE
    /\ \E h \in Handles : releases[h] = 1

\* the views minted for guard g
ViewsOf(g) == {h \in Handles : handles[h].mutex = g}

\* C11: acquisition never waits and is never queued -- every acquire()
\* ends at once with a live view or with MutexLockedError, a refused
\* acquire changes nothing, a successful release() leaves the guard Free
\* with no live view, and a Free guard stays Free, with no view minted,
\* through every step that is not an acquire() on it.
NeverQueued ==
    [][\A g \in Guards :
          /\ (lastOp'.op = "acquire" /\ lastOp'.mutex = g) =>
                \/ /\ lastOp'.result = Ok
                   /\ lastOp'.handle \in Live(g)'
                \/ /\ lastOp'.result = MutexLockedError
                   /\ lastOp'.handle = NoHandle
                   /\ UNCHANGED <<value, borrow, handles, symbols, releases>>
          /\ (lastOp'.op = "release" /\ lastOp'.mutex = g /\ lastOp'.result = Ok) =>
                /\ borrow'[g] = Null
                /\ Live(g)' = {}
                /\ ViewsOf(g)' = ViewsOf(g)
          /\ (/\ mounted[g] /\ borrow[g] = Null
              /\ ~(lastOp'.op = "acquire" /\ lastOp'.mutex = g)) =>
                /\ borrow'[g] = Null
                /\ Live(g)' = {}
                /\ ViewsOf(g)' = ViewsOf(g)]_vars

\* release() has just succeeded right after an acquire() was refused, and
\* the guard is Free with no live view
NeverQueuedWitness ==
    /\ lastOp.op = "release" /\ lastOp.result = Ok
    /\ lastOp.prevAcquire = MutexLockedError
    /\ borrow[lastOp.mutex] = Null
    /\ Live(lastOp.mutex) = {}

\* C12: the storage is built exactly once per component -- the first
\* useMutex call leaves the holder null and the value equal to the supplied
\* initial value, or to the initializer's result with the initializer
\* invoked once; every later useMutex call leaves value and holder as they
\* were and does not invoke the initializer.
StorageBuiltOnce ==
    [][\A g \in Guards : (lastOp'.op = "useMutex" /\ lastOp'.mutex = g) =>
          IF renders[g] = 0
          THEN /\ mounted'[g]
               /\ borrow'[g] = Null
               /\ IF lastOp'.arg # NoValue
                  THEN /\ value'[g] = CallInitializer(lastOp'.init, lastOp'.arg)
                       /\ initCalls'[g] = 1
                  ELSE /\ value'[g] = lastOp'.init
                       /\ initCalls'[g] = 0
          ELSE /\ mounted[g] /\ mounted'[g]
               /\ value'[g] = value[g]
               /\ borrow'[g] = borrow[g]
               /\ initCalls'[g] = initCalls[g]
               /\ handles' = handles]_vars

\* a re-render with an initializer has just left a held guard alone: the
\* value is not the one the initializer would give and it was not invoked
\* a second time
StorageBuiltOnceWitness ==
    /\ lastOp.op = "useMutex" /\ renders[lastOp.mutex] >= 2
    /\ lastOp.arg # NoValue
    /\ value[lastOp.mutex] # CallInitializer(lastOp.init, lastOp.arg)
    /\ initCalls[lastOp.mutex] = 1
    /\ borrow[lastOp.mutex] # Null

\* C13: the value of a mounted guard changes only by a set() that succeeds
\* on the live view, and then becomes the argument of that set(); acquire,
\* release, get, a refused set and the probes leave it unchanged.
ValueChangesOnlyBySet ==
    [][\A g \in Guards :
          /\ (mounted[g] /\ value'[g] # value[g]) =>
                /\ lastOp'.op = "set" /\ lastOp'.mutex = g
                /\ lastOp'.result = Ok
                /\ lastOp'.handle \in Live(g)
                /\ value'[g] = lastOp'.arg
          /\ (/\ lastOp'.mutex = g
              /\ \/ lastOp'.op \in {"acquire", "release", "get",
                                    "isAvailable", "isReleased"}
                 \/ lastOp'.op = "set" /\ lastOp'.result # Ok) =>
                value'[g] = value[g]]_vars

\* an acquire() has just been refused after a set() through the live view,
\* and the value is still the one that was set, different from 0
ValueChangesWitness ==
    /\ lastOp.op = "acquire" /\ lastOp.result = MutexLockedError
    /\ lastSet[lastOp.mutex].handle \in Live(lastOp.mutex)
    /\ value[lastOp.mutex] = lastSet[lastOp.mutex].value
    /\ value[lastOp.mutex] # 0

\* C14: the holder slot follows the two-state machine -- it changes only
\* from null to the fresh token of the view a successful acquire() returns,
\* and from a token to null by a successful release() on the view carrying
\* that token; it never goes from one token to another, and a holder stays
\* the holder through every other call.
HolderStateMachine ==
    [][\A g \in Guards : mounted[g] =>
          /\ (borrow[g] = Null /\ borrow'[g] # Null) =>
                /\ lastOp'.op = "acquire" /\ lastOp'.mutex = g
                /\ lastOp'.result = Ok
                /\ lastOp'.handle = Len(handles) + 1
                /\ handles'[lastOp'.handle].token = borrow'[g]
                /\ \A h \in Handles : handles[h].token # borrow'[g]
          /\ (borrow[g] # Null /\ borrow'[g] # borrow[g]) =>
                /\ borrow'[g] = Null
                /\ lastOp'.op = "release" /\ lastOp'.result = Ok
                /\ lastOp'.handle \in Handles
                /\ handles[lastOp'.handle].mutex = g
                /\ handles[lastOp'.handle].token = borrow[g]
          /\ (/\ borrow[g] # Null
              /\ ~(/\ lastOp'.op = "release" /\ lastOp'.handle \in Handles
                   /\ handles[lastOp'.handle].token = borrow[g])) =>
                borrow'[g] = borrow[g]]_vars

\* the holder has just come through a refused acquire() followed by a
\* refused release() of a stale view
HolderWitness ==
    /\ lastOp.op = "release" /\ lastOp.result = MutexAccessRevokedError
    /\ lastOp.prevAcquire = MutexLockedError
    /\ borrow[lastOp.mutex] # Null
    /\ \E h \in Live(lastOp.mutex) : handles[h].token = borrow[lastOp.mutex]

\* C15: identities are never reused -- every successful acquire() mints a
\* token different from null and from every token minted before, and the
\* token (and guard) of a view never changes once it exists.
IdentitiesNeverReused ==
    [][/\ Len(handles') >= Len(handles)
       /\ \A h \in Handles : handles'[h] = handles[h]
       /\ \A h \in 1..Len(handles') :
             /\ handles'[h].token # Null
             /\ \A k \in 1..Len(handles') :
                   k # h => handles'[k].token # handles'[h].token
       /\ (lastOp'.op = "acquire" /\ lastOp'.result = Ok) =>
             /\ Len(handles') = Len(handles) + 1
             /\ \A h \in Handles :
                   handles'[Len(handles')].token # handles[h].token]_vars

\* a third view has just been minted and the three tokens differ pairwise
IdentitiesWitness ==
    /\ lastOp.op = "acquire" /\ lastOp.result = Ok
    /\ Len(handles) >= 3
    /\ Cardinality({handles[h].token : h \in Handles}) = Len(handles)

\* the callers holding a live view of guard g
Holders(g) == {c \in Callers : holding[c] \cap Live(g) # {}}

\* C16: with callers interleaving whole calls, acquire() tests and sets the
\* holder in one step -- an acquire() on a Free guard succeeds and makes its
\* caller the only holder, an acquire() on a Held guard is refused whoever
\* calls, of two acquire() calls in a row on a guard the second is always
\* refused, and at no time do two callers hold a live view.
AcquireAtomic ==
    [][\A g \in Guards :
          /\ (lastOp'.op = "acquire" /\ lastOp'.mutex = g) =>
                IF borrow[g] = Null
                THEN /\ lastOp'.result = Ok
                     /\ Live(g)' = {lastOp'.handle}
                     /\ Holders(g)' = {lastOp'.caller}
                ELSE /\ lastOp'.result = MutexLockedError
                     /\ Live(g)' = Live(g)
                     /\ Holders(g)' = Holders(g)
          /\ (/\ lastOp.op = "acquire" /\ lastOp.mutex = g
              /\ lastOp'.op = "acquire" /\ lastOp'.mutex = g) =>
                lastOp'.result = MutexLockedError
          /\ Cardinality(Holders(g)') <= 1]_vars

\* a caller's acquire() has just been refused right after another caller's
\* acquire() succeeded; that other caller is the only holder
AcquireAtomicWitness ==
    /\ lastOp.op = "acquire" /\ lastOp.result = MutexLockedError
    /\ lastOp.prevAcquire = Ok
    /\ \E c \in Callers :
          /\ c # lastOp.caller
          /\ Holders(lastOp.mutex) = {c}

\* C17: the Mutex objects of all renders of a component work on the same
\* guard -- a re-render leaves the live view live and value and holder as
\* they were; whichever render's Mutex object is used, acquire() is refused
\* exactly when a view of the guard is live and isAvailable() answers
\* whether none is; after an acquire() succeeded through one render's
\* object, an acquire() through another's is refused; and after the view
\* is released they succeed and answer true again.
SharedAcrossRenders ==
    [][\A g \in Guards :
          /\ (lastOp'.op = "useMutex" /\ lastOp'.mutex = g /\ renders[g] > 0) =>
                /\ Live(g)' = Live(g)
                /\ borrow'[g] = borrow[g]
                /\ value'[g] = value[g]
          /\ (lastOp'.op = "acquire" /\ lastOp'.mutex = g) =>
                /\ lastOp'.render \in 1..renders[g]
                /\ lastOp'.result = IF Live(g) # {} THEN MutexLockedError
                                                     ELSE Ok
          /\ (lastOp'.op = "isAvailable" /\ lastOp'.mutex = g) =>
                /\ lastOp'.render \in 1..renders[g]
                /\ lastOp'.flag = (Live(g) = {})
          /\ (/\ lastOp.op = "acquire" /\ lastOp.mutex = g /\ lastOp.result = Ok
              /\ lastOp'.op = "acquire" /\ lastOp'.mutex = g
              /\ lastOp'.render # lastOp.render) =>
                lastOp'.result = MutexLockedError
          /\ (/\ lastOp.op = "release" /\ lastOp.mutex = g /\ lastOp.result = Ok
              /\ lastOp'.op = "acquire" /\ lastOp'.mutex = g) =>
                lastOp'.result = Ok]_vars

\* an acquire() through the second render's Mutex object has just been
\* refused right after one through the first render's object succeeded
SharedAcrossRendersWitness ==
    /\ lastOp.op = "acquire" /\ lastOp.result = MutexLockedError
    /\ lastOp.render = 2
    /\ lastOp.prevAcquire = Ok /\ lastOp.prevRender = 1
    /\ Live(lastOp.mutex) # {}

\* C18: guards are independent -- a view stays bound to the guard that
\* minted it and its token never equals the holder slot of another guard;
\* a call on one guard or on one of its views leaves the storage, the
\* value, the holder, the views and their liveness of every other guard
\* unchanged.
GuardsIndependent ==
    [][/\ \A h \in Handles : handles'[h].mutex = handles[h].mutex
       /\ \A h \in 1..Len(handles') : \A g \in Guards :
             g # handles'[h].mutex => handles'[h].token # borrow'[g]
       /\ lastOp'.handle # NoHandle =>
             handles'[lastOp'.handle].mutex = lastOp'.mutex
       /\ \A g \in Guards : lastOp'.mutex # g =>
             /\ mounted'[g] = mounted[g]
             /\ value'[g] = value[g]
             /\ borrow'[g] = borrow[g]
             /\ ViewsOf(g)' = ViewsOf(g)
             /\ Live(g)' = Live(g)]_vars

\* two guards are held at once, each by its own view, and a set() through
\* the view of one has just given it a value the other does not have
GuardsIndependentWitness ==
    /\ lastOp.op = "set" /\ lastOp.result = Ok
    /\ \E g \in Guards :
          /\ g # lastOp.mutex
          /\ Live(g) # {} /\ Live(lastOp.mutex) # {}
          /\ Live(g) \cap Live(lastOp.mutex) = {}
          /\ value[g] # value[lastOp.mutex]

====
